---- MODULE Spec2Model ----
(***************************************************************************)
(* Model of the table browser: src/api/app.py (the metadata-driven service *)
(* GET /api/table/{table_full}) and src/api/main.py (the static-dictionary *)
(* service GET /data/{table}).                                             *)
(*                                                                         *)
(* A string is a sequence of characters; a character is a one-element      *)
(* token ("a", ".", "%", ...).  Control and non-ASCII characters have      *)
(* names: "LF" is U+000A, "NUL" is U+0000, "STX" is U+0002 and "FFFD" is   *)
(* U+FFFD, the replacement character urllib emits for an undecodable byte. *)
(***************************************************************************)
EXTENDS Integers, Sequences, FiniteSets, TLC

VARIABLES
    phase,          \* "input" before, "output" after the function under study ran
    raw,            \* SpecParse: the argument of parse_schema_table
    parsed,         \* SpecParse: what parse_schema_table returned or raised
    cols,           \* SpecLabels: the physical column names, in driver order
    label_map,      \* SpecLabels: comment_map (app.py) or col_map (main.py)
    display_cols,   \* SpecLabels: the relabelled column list
    req             \* Spec: the requests in flight, one record per request

vars == <<phase, raw, parsed, cols, label_map, display_cols, req>>

-----------------------------------------------------------------------------
(* Bounds of the model *)

\* longest raw identifier given to parse_schema_table in SpecParse
MaxLen == 4

\* longest physical column list in SpecLabels
MaxCols == 2

-----------------------------------------------------------------------------
(* Characters *)

\* the characters raw identifiers are built from
Alphabet == {"a", "0", "2", "%", " ", ".", ";", "LF"}

\* str.strip() with no argument removes whitespace; of the characters the
\* model knows, the space and the line feed are whitespace
Whitespace == {" ", "LF"}

\* the character class of SAFE_NAME_RE, [A-Za-z0-9_ .-], as far as the
\* characters of the model go
SafeChars == {"a", "b", "d", "o", "A", "0", "2", "_", " ", ".", "-"}

HexDigits == {"a", "A", "0", "2"}

Strings(n) == UNION {[1..k -> Alphabet] : k \in 0..n}

-----------------------------------------------------------------------------
(* str.strip, urllib.parse.unquote, SAFE_NAME_RE.match, str.split *)

RECURSIVE lstrip(_)
lstrip(s) ==
    IF s # <<>> /\ Head(s) \in Whitespace THEN lstrip(Tail(s)) ELSE s

RECURSIVE rstrip(_)
rstrip(s) ==
    IF s # <<>> /\ s[Len(s)] \in Whitespace
    THEN rstrip(SubSeq(s, 1, Len(s) - 1))
    ELSE s

strip(s) == rstrip(lstrip(s))

\* the character a %XY escape decodes to (bytes.decode("utf-8", "replace")):
\* 0x00, 0x02, 0x0A, 0x20, 0x22, 0x2A are ASCII; 0xA0, 0xA2, 0xAA are lone
\* continuation bytes, each replaced by U+FFFD
HexToChar(h, l) ==
    LET lo(c) == IF c = "A" THEN "a" ELSE c
        hh == lo(h)
        ll == lo(l)
    IN  IF hh = "a" THEN "FFFD"
        ELSE IF hh = "0" THEN (IF ll = "0" THEN "NUL"
                               ELSE IF ll = "2" THEN "STX" ELSE "LF")
        ELSE (IF ll = "0" THEN " "
              ELSE IF ll = "2" THEN "QUOT" ELSE "*")

\* urllib.parse.unquote: every "%" followed by two hex digits becomes the
\* decoded character, every other character (a "%" with no two hex digits
\* after it included) is kept; one pass, left to right
RECURSIVE unquote(_)
unquote(s) ==
    IF s = <<>> THEN <<>>
    ELSE IF /\ Head(s) = "%"
            /\ Len(s) >= 3
            /\ s[2] \in HexDigits
            /\ s[3] \in HexDigits
         THEN <<HexToChar(s[2], s[3])>> \o unquote(SubSeq(s, 4, Len(s)))
         ELSE <<Head(s)>> \o unquote(Tail(s))

\* SAFE_NAME_RE.match(full) with the pattern ^[A-Za-z0-9_ .-]+$ and no flags:
\* in Python "$" matches at the end of the string and also just before a
\* line feed that is the last character of the string
BeforeDollar(s) ==
    IF s # <<>> /\ s[Len(s)] = "LF" THEN {s, SubSeq(s, 1, Len(s) - 1)} ELSE {s}

SAFE_NAME_RE_match(s) ==
    \E body \in BeforeDollar(s) :
        /\ Len(body) >= 1
        /\ \A i \in 1..Len(body) : body[i] \in SafeChars
        /\ body = s \/ s = body \o <<"LF">>

\* full.split(".", 1) when "." in full: scan for the first "."
RECURSIVE SplitAt(_, _)
SplitAt(s, i) ==
    IF s[i] = "." THEN <<SubSeq(s, 1, i - 1), SubSeq(s, i + 1, Len(s))>>
    ELSE SplitAt(s, i + 1)

\* a split at the last "." instead (str.rsplit)
RECURSIVE RSplitAt(_, _)
RSplitAt(s, i) ==
    IF s[i] = "." THEN <<SubSeq(s, 1, i - 1), SubSeq(s, i + 1, Len(s))>>
    ELSE RSplitAt(s, i - 1)

rsplit_once(s) == RSplitAt(s, Len(s))

split_once(s) == SplitAt(s, 1)

HasDot(s) == \E i \in 1..Len(s) : s[i] = "."

DefaultSchema == <<"d", "b", "o">>

ValueError(msg) == [kind |-> "ValueError", msg |-> msg]

Pair(schema, table) == [kind |-> "pair", schema |-> schema, table |-> table]

\* the same without the check of line 71
SplitAndTrimUnchecked(full) ==
    LET parts == IF HasDot(full) THEN split_once(full)
                 ELSE <<DefaultSchema, full>>
    IN  Pair(strip(parts[1]), strip(parts[2]))

\* parse_schema_table after the match: split, strip both parts, reject empties
SplitAndTrim(full) ==
    LET parts == IF HasDot(full) THEN split_once(full)
                 ELSE <<DefaultSchema, full>>
        schema == strip(parts[1])
        table  == strip(parts[2])
    IN  IF schema = <<>> \/ table = <<>>
        THEN ValueError("schema/table empty")
        ELSE Pair(schema, table)

parse_schema_table(full0) ==
    LET full == unquote(strip(full0))
    IN  IF ~SAFE_NAME_RE_match(full)
        THEN ValueError("bad format")
        ELSE SplitAndTrim(full)

NotCalled == [kind |-> "none"]

EmptyMap == [k \in {} |-> k]

-----------------------------------------------------------------------------
(* SpecParse: parse_schema_table applied to every raw identifier of at     *)
(* most MaxLen characters                                                  *)

InitParse ==
    /\ phase = "input"
    /\ raw \in Strings(MaxLen)
    /\ parsed = NotCalled
    /\ cols = <<>>
    /\ label_map = EmptyMap
    /\ display_cols = <<>>
    /\ req = EmptyMap

CallParse ==
    /\ phase = "input"
    /\ phase' = "output"
    /\ parsed' = parse_schema_table(raw)
    /\ UNCHANGED <<raw, cols, label_map, display_cols, req>>

NextParse == CallParse

SpecParse == InitParse /\ [][NextParse]_vars

-----------------------------------------------------------------------------
(* The label override: comment_map.get(c, c) and col_map.get(col, col)     *)

ColNames == {"A", "B", "C"}

\* display labels; "B" is also the physical name of a column
Labels == {"X", "B"}

LabelMaps == UNION {[S -> Labels] : S \in SUBSET ColNames}

ColLists(n) == UNION {[1..k -> ColNames] : k \in 0..n}

\* dict.get(key) with no default: None for a missing key
dict_get_none(m, k, default) == IF k \in DOMAIN m THEN m[k] ELSE "None"

\* dict.get(key, default)
dict_get(m, k, default) == IF k \in DOMAIN m THEN m[k] ELSE default

\* [comment_map.get(c, c) for c in cols]
RECURSIVE DisplayCols(_, _)
DisplayCols(m, cs) ==
    IF cs = <<>> THEN <<>>
    ELSE <<dict_get(m, Head(cs), Head(cs))>> \o DisplayCols(m, Tail(cs))

InitLabels ==
    /\ phase = "input"
    /\ raw = <<>>
    /\ parsed = NotCalled
    /\ cols \in ColLists(MaxCols)
    /\ label_map \in LabelMaps
    /\ display_cols = <<>>
    /\ req = EmptyMap

Relabel ==
    /\ phase = "input"
    /\ phase' = "output"
    /\ display_cols' = DisplayCols(label_map, cols)
    /\ UNCHANGED <<raw, parsed, cols, label_map, req>>

NextLabels == Relabel

SpecLabels == InitLabels /\ [][NextLabels]_vars

-----------------------------------------------------------------------------
(* The database the two services talk to                                   *)

\* the requests the services handle, each once, in any interleaving
NumRequests == 2

Requests == 1..NumRequests

\* the raw path parameters of the requests: "a"; "a.b"; ".a", whose schema
\* part is empty; "a%0a", which decodes to "a" followed by a line feed;
\* "a]--", which closes a bracket
RawIdentifiers ==
    { <<"a">>, <<"a", ".", "b">>, <<".", "a">>, <<"a", "%", "0", "a">>,
      <<"a", "]", "-", "-">> }

\* the limit query parameter: both edges of the range and their neighbours
Limits == {0, 1, 5000, 5001}

\* the tables of the database: only dbo.a, with two rows; its columns A and
\* B carry the same comment and its column C carries none.  There is no
\* table a.b
Catalog ==
    { [schema |-> <<"d", "b", "o">>, table |-> <<"a">>,
       columns |-> <<"A", "B", "C">>,
       rows |-> << <<1, 2, 3>>, <<4, 5, 6>> >>,
       comments |-> [c \in {"A", "B"} |-> "X"]] }

Lookup(schema, table) ==
    {t \in Catalog : t.schema = schema /\ t.table = table}

Take(seq, n) == SubSeq(seq, 1, IF n < Len(seq) THEN n ELSE Len(seq))

-----------------------------------------------------------------------------
(* Request records                                                         *)

NoResponse == [status |-> 0]

HTTPException(code, detail) == [status |-> code, detail |-> detail]

\* an exception nothing catches: the framework answers 500
ServerError == [status |-> 500, detail |-> "Internal Server Error"]

IdleRequest ==
    [svc |-> "none", pc |-> "idle", raw |-> <<>>, limit |-> 0,
     schema |-> <<>>, table |-> <<>>, comment_map |-> EmptyMap,
     calls |-> <<>>, conn |-> FALSE, response |-> NoResponse,
     driver_columns |-> <<>>, driver_rows |-> <<>>]

Call(stmt, text, params, ok) ==
    [stmt |-> stmt, text |-> text, params |-> params, ok |-> ok]

Update(r, rec) ==
    /\ req' = [req EXCEPT ![r] = rec]
    /\ UNCHANGED <<phase, raw, parsed, cols, label_map, display_cols>>

-----------------------------------------------------------------------------
(* app.py: GET /api/table/{table_full}                                     *)

\* a limit check that lets 0 through
LimitRejectedBelowZero(limit) == limit < 0 \/ limit > 5000

\* line 233
LimitRejected(limit) == limit < 1 \/ limit > 5000

\* lines 232-239: both validations, up to the first database call
read_table(r) ==
    /\ req[r].pc = "idle"
    /\ \E table_full \in RawIdentifiers, limit \in Limits :
          LET got == parse_schema_table(table_full)
              base == [req[r] EXCEPT !.svc = "app", !.raw = table_full,
                                     !.limit = limit]
          IN  IF LimitRejected(limit)
              THEN Update(r, [base EXCEPT
                      !.pc = "done",
                      !.response = HTTPException(400, "limit range")])
              ELSE IF got.kind = "ValueError"
              THEN Update(r, [base EXCEPT
                      !.pc = "done",
                      !.response = HTTPException(400, got.msg)])
              ELSE Update(r, [base EXCEPT
                      !.pc = "comments",
                      !.schema = got.schema,
                      !.table = got.table])

\* the statement of fetch_table_comments: a constant text, two bound names
CommentsText == <<"SELECT c.name, ep.value ... WHERE s.name = :schema AND o.name = :table">>

\* line 96: pd.read_sql checks a connection out of the engine's pool
comments_connect(r) ==
    /\ req[r].pc = "comments"
    /\ Update(r, [req[r] EXCEPT !.pc = "comments_exec", !.conn = TRUE])

\* lines 97-101: one entry per column that has a non-blank comment
CommentsOf(schema, table) ==
    IF Lookup(schema, table) = {} THEN EmptyMap
    ELSE (CHOOSE t \in Lookup(schema, table) : TRUE).comments

\* lines 96-101 and 242: the catalog query answers; pandas gives the
\* connection back and the mapping is returned
comments_ok(r) ==
    /\ req[r].pc = "comments_exec"
    /\ Update(r, [req[r] EXCEPT
          !.pc = "rows",
          !.conn = FALSE,
          !.comment_map = CommentsOf(req[r].schema, req[r].table),
          !.calls = Append(@, Call("comments", CommentsText,
                                   <<req[r].schema, req[r].table>>, TRUE))])

\* line 96 raises: pandas gives the connection back, nothing in
\* fetch_table_comments or read_table catches, the request ends in 500
comments_fail(r) ==
    /\ req[r].pc = "comments_exec"
    /\ Update(r, [req[r] EXCEPT
          !.pc = "done",
          !.conn = FALSE,
          !.calls = Append(@, Call("comments", CommentsText,
                                   <<req[r].schema, req[r].table>>, FALSE)),
          !.response = ServerError])

\* lines 246-250: the f-string carries the limit; schema and table are the
\* bind parameters :schema and :table, quoted by QUOTENAME in the database
RowsText(limit) ==
    <<"DECLARE @sql NVARCHAR(MAX) = N'SELECT TOP (", ToString(limit),
      ") * FROM ' + QUOTENAME(:schema) + N'.' + QUOTENAME(:table) + N''; EXEC sp_executesql @sql, ...">>

\* line 253: engine.connect() checks a connection out
rows_connect(r) ==
    /\ req[r].pc = "rows"
    /\ Update(r, [req[r] EXCEPT !.pc = "rows_exec", !.conn = TRUE])

\* d[c] = row[i] for i, c in enumerate(display_cols), from position i on
RECURSIVE RowDict(_, _, _, _)
RowDict(d, keys, row, i) ==
    IF i > Len(keys) THEN d
    ELSE RowDict([k \in DOMAIN d \cup {keys[i]} |->
                     IF k = keys[i] THEN row[i] ELSE d[k]],
                 keys, row, i + 1)

\* lines 258-269: relabel the columns, build one mapping per row
TableResponse(schema, table, comment_map, columns, rows) ==
    LET shown == DisplayCols(comment_map, columns)
    IN  [status |-> 200,
         table |-> schema \o <<".">> \o table,
         columns |-> shown,
         rows |-> [j \in 1..Len(rows) |-> RowDict(EmptyMap, shown, rows[j], 1)]]

\* lines 253-269: the statement runs, the with block gives the connection
\* back, the response is built
rows_ok(r) ==
    /\ req[r].pc = "rows_exec"
    /\ \E t \in Lookup(req[r].schema, req[r].table) :
          Update(r, [req[r] EXCEPT
              !.pc = "done",
              !.conn = FALSE,
              !.calls = Append(@, Call("rows", RowsText(req[r].limit),
                                       <<req[r].schema, req[r].table>>, TRUE)),
              !.driver_columns = t.columns,
              !.driver_rows = Take(t.rows, req[r].limit),
              !.response = TableResponse(req[r].schema, req[r].table,
                               req[r].comment_map, t.columns,
                               Take(t.rows, req[r].limit))])

\* a failed statement answered with an empty row set
rows_fail_swallowed(r) ==
    /\ req[r].pc = "rows_exec"
    /\ Update(r, [req[r] EXCEPT
          !.pc = "done",
          !.conn = FALSE,
          !.calls = Append(@, Call("rows", RowsText(req[r].limit),
                                   <<req[r].schema, req[r].table>>, FALSE)),
          !.response = TableResponse(req[r].schema, req[r].table,
                           req[r].comment_map, <<>>, <<>>)])

\* lines 254-255 raise (no such table, no permission, no connectivity): the
\* with block gives the connection back, the request ends in 500
rows_fail(r) ==
    /\ req[r].pc = "rows_exec"
    /\ Update(r, [req[r] EXCEPT
          !.pc = "done",
          !.conn = FALSE,
          !.calls = Append(@, Call("rows", RowsText(req[r].limit),
                                   <<req[r].schema, req[r].table>>, FALSE)),
          !.response = ServerError])

\* the pool cannot connect (lines 96, 253): nothing is checked out
app_connect_fail(r) ==
    /\ req[r].pc \in {"comments", "rows"}
    /\ Update(r, [req[r] EXCEPT !.pc = "done", !.response = ServerError])

-----------------------------------------------------------------------------
(* main.py: GET /data/{table}                                              *)

\* lines 8-106, one table standing for the dictionary: within a table the
\* labels differ from each other and from every physical name
COLUMN_NAME_MAP ==
    [t \in {<<"a">>} |-> [c \in {"A", "B"} |-> IF c = "A" THEN "X" ELSE "Y"]]

\* line 172: the f-string carries the path parameter itself
DataText(table) == <<"SELECT TOP 100 * FROM dbo.[">> \o table \o <<"]">>

\* the row limit written into line 172
DataTop == 100

\* lines 171-173 up to pyodbc.connect
get_table_data(r) ==
    /\ req[r].pc = "idle"
    /\ \E table \in RawIdentifiers :
          Update(r, [req[r] EXCEPT !.svc = "main", !.pc = "query",
                                   !.raw = table, !.table = table])

\* line 136: pyodbc.connect opens a connection
run_query_connect(r) ==
    /\ req[r].pc = "query"
    /\ Update(r, [req[r] EXCEPT !.pc = "query_exec", !.conn = TRUE])

\* line 136 raises: no connection was opened
run_query_connect_fail(r) ==
    /\ req[r].pc = "query"
    /\ Update(r, [req[r] EXCEPT !.pc = "done", !.response = ServerError])

\* the name SQL Server reads between "dbo.[" and the first "]"
RECURSIVE BracketedName(_)
BracketedName(s) ==
    IF s = <<>> \/ Head(s) = "]" THEN <<>>
    ELSE <<Head(s)>> \o BracketedName(Tail(s))

\* what follows the bracketed name in the text of line 172
AfterName(table) ==
    SubSeq(table \o <<"]">>, Len(BracketedName(table)) + 2, Len(table) + 1)

\* the batch is one SELECT when nothing, or only a "--" comment, follows
IsOneSelect(table) ==
    \/ AfterName(table) = <<>>
    \/ Len(AfterName(table)) >= 2 /\ SubSeq(AfterName(table), 1, 2) = <<"-", "-">>

\* line 143: COLUMN_NAME_MAP.get(table_name, {})
ColMapOf(table_name) ==
    IF table_name \in DOMAIN COLUMN_NAME_MAP
    THEN COLUMN_NAME_MAP[table_name] ELSE EmptyMap

\* lines 143-151: one item per row, keyed by the relabelled column
Items(table_name, columns, rows) ==
    LET shown == DisplayCols(ColMapOf(table_name), columns)
    IN  [status |-> 200,
         rows |-> [j \in 1..Len(rows) |-> RowDict(EmptyMap, shown, rows[j], 1)]]

\* lines 137-153: the statement runs and the items are returned; leaving
\* the with block commits and does not close a pyodbc connection, which is
\* closed when run_query returns and its last reference goes
run_query_ok(r) ==
    /\ req[r].pc = "query_exec"
    /\ IsOneSelect(req[r].table)
    /\ \E t \in Lookup(DefaultSchema, BracketedName(req[r].table)) :
          Update(r, [req[r] EXCEPT
              !.pc = "done",
              !.conn = FALSE,
              !.calls = Append(@, Call("rows", DataText(req[r].table), <<>>, TRUE)),
              !.driver_columns = t.columns,
              !.driver_rows = Take(t.rows, DataTop),
              !.response = Items(req[r].table, t.columns, Take(t.rows, DataTop))])

\* lines 138-141 raise: leaving the with block rolls back and does not
\* close the connection; the traceback of the exception keeps run_query's
\* frame, and with it conn, alive while the 500 response is produced
run_query_fail(r) ==
    /\ req[r].pc = "query_exec"
    /\ Update(r, [req[r] EXCEPT
          !.pc = "done",
          !.calls = Append(@, Call("rows", DataText(req[r].table), <<>>, FALSE)),
          !.response = ServerError])

\* the exception of a finished request is released and the connection it
\* kept alive is closed by the connection object's finaliser
finalize_connection(r) ==
    /\ req[r].pc = "done"
    /\ req[r].conn
    /\ Update(r, [req[r] EXCEPT !.conn = FALSE])

-----------------------------------------------------------------------------
(* Spec: NumRequests requests to the two services, interleaved at their    *)
(* database calls                                                          *)

Init ==
    /\ phase = "input"
    /\ raw = <<>>
    /\ parsed = NotCalled
    /\ cols = <<>>
    /\ label_map = EmptyMap
    /\ display_cols = <<>>
    /\ req = [r \in Requests |-> IdleRequest]

Next ==
    \E r \in Requests :
        \/ read_table(r)
        \/ comments_connect(r)
        \/ comments_ok(r)
        \/ comments_fail(r)
        \/ rows_connect(r)
        \/ rows_ok(r)
        \/ rows_fail(r)
        \/ app_connect_fail(r)
        \/ get_table_data(r)
        \/ run_query_connect(r)
        \/ run_query_connect_fail(r)
        \/ run_query_ok(r)
        \/ run_query_fail(r)
        \/ finalize_connection(r)

Spec == Init /\ [][Next]_vars

-----------------------------------------------------------------------------
(* Claims about parse_schema_table (SpecParse)                             *)

\* the identifier as the resolver validates it: trimmed, then percent-decoded
Decoded(r) == unquote(strip(r))

\* every character is one of [A-Za-z0-9_ .-], and there is at least one
InAllowList(s) == Len(s) >= 1 /\ \A i \in 1..Len(s) : s[i] \in SafeChars

\* s without its leading and trailing whitespace
Trimmed(s) ==
    LET keep == {i \in 1..Len(s) : s[i] \notin Whitespace}
    IN  IF keep = {} THEN <<>>
        ELSE SubSeq(s, CHOOSE i \in keep : \A j \in keep : i <= j,
                       CHOOSE i \in keep : \A j \in keep : i >= j)

\* the reference of C3: the text before the first "." and the remainder
\* after it, both trimmed; the default schema when there is no "."
RefPair(s) ==
    IF \E i \in 1..Len(s) : s[i] = "."
    THEN LET d == CHOOSE i \in 1..Len(s) :
                      s[i] = "." /\ \A j \in 1..(i - 1) : s[j] # "."
         IN  <<Trimmed(SubSeq(s, 1, d - 1)), Trimmed(SubSeq(s, d + 1, Len(s)))>>
    ELSE <<DefaultSchema, Trimmed(s)>>

\* C3: for every raw identifier that passes the allow-list and whose two
\* parts are non-empty, parse_schema_table returns the reference pair:
\* split at the first ".", both halves trimmed, "dbo" when there is no "."
C3_ParseMatchesReference ==
    (/\ phase = "output"
     /\ InAllowList(Decoded(raw))
     /\ RefPair(Decoded(raw))[1] # <<>>
     /\ RefPair(Decoded(raw))[2] # <<>>)
    => parsed = Pair(RefPair(Decoded(raw))[1], RefPair(Decoded(raw))[2])

\* a pair was returned whose table part keeps a further dot
C3_Witness ==
    /\ phase = "output"
    /\ InAllowList(Decoded(raw))
    /\ parsed.kind = "pair"
    /\ HasDot(parsed.table)

\* C4: every pair parse_schema_table returns has two non-empty parts made
\* of allow-list characters only, and an identifier whose schema or table
\* part is empty after trimming makes the call fail
C4_PairInvariant ==
    phase = "output" =>
        /\ parsed.kind = "pair" =>
              /\ InAllowList(parsed.schema)
              /\ InAllowList(parsed.table)
        /\ (\/ RefPair(Decoded(raw))[1] = <<>>
            \/ RefPair(Decoded(raw))[2] = <<>>) => parsed.kind = "ValueError"

\* an allow-listed identifier was rejected for an empty part
C4_Witness ==
    /\ phase = "output"
    /\ InAllowList(Decoded(raw))
    /\ HasDot(Decoded(raw))
    /\ parsed = ValueError("schema/table empty")

-----------------------------------------------------------------------------
(* Claims about the label override (SpecLabels)                            *)

\* C5: the display-column list has the length and order of the physical
\* list; entry i is label_map[cols[i]] when cols[i] is a key of the map and
\* cols[i] unchanged otherwise
C5_LabelOverrideTotal ==
    phase = "output" =>
        /\ Len(display_cols) = Len(cols)
        /\ \A i \in 1..Len(cols) :
              display_cols[i] = IF cols[i] \in DOMAIN label_map
                                THEN label_map[cols[i]]
                                ELSE cols[i]

\* a partial map: one column relabelled, another passed through
C5_Witness ==
    /\ phase = "output"
    /\ \E i, j \in 1..Len(cols) :
          /\ cols[i] \in DOMAIN label_map
          /\ display_cols[i] # cols[i]
          /\ cols[j] \notin DOMAIN label_map
          /\ display_cols[j] = cols[j]

-----------------------------------------------------------------------------
(* Claims about the two services (Spec)                                    *)

HasBadChar(s) == \E i \in 1..Len(s) : s[i] \notin SafeChars

Failed(r, stmt) ==
    \E i \in 1..Len(req[r].calls) :
        req[r].calls[i].stmt = stmt /\ ~req[r].calls[i].ok

Issued(r, stmt) ==
    {i \in 1..Len(req[r].calls) : req[r].calls[i].stmt = stmt}

\* C1: a request to GET /api/table whose identifier, once trimmed and
\* percent-decoded, holds a character outside [A-Za-z0-9_ .-] makes
\* parse_schema_table raise ValueError and ends in 400 with no database
\* call issued
C1_BadCharacterRejected ==
    \A r \in Requests :
        (req[r].svc = "app" /\ HasBadChar(Decoded(req[r].raw))) =>
            /\ req[r].pc = "done"
            /\ req[r].response.status = 400
            /\ ~LimitRejected(req[r].limit) =>
                  req[r].response = HTTPException(400, ValueError("bad format").msg)
            /\ req[r].calls = <<>>

\* C2: a limit outside [1, 5000] ends the request in 400 with no statement
\* built and no database call made, whatever the identifier; a limit
\* inside the range is never rejected by the limit check
C2_LimitChecked ==
    \A r \in Requests :
        req[r].svc = "app" =>
            /\ (req[r].limit < 1 \/ req[r].limit > 5000) =>
                  /\ req[r].pc = "done"
                  /\ req[r].response.status = 400
                  /\ req[r].calls = <<>>
                  /\ ~req[r].conn
            /\ (req[r].limit >= 1 /\ req[r].limit <= 5000) =>
                  req[r].response # HTTPException(400, "limit range")

\* a limit of 0 was rejected for a good identifier, and a limit of 5000
\* was served
C2_Witness ==
    \E r1, r2 \in Requests :
        /\ req[r1].svc = "app" /\ req[r1].limit = 0
        /\ req[r1].raw = <<"a">>
        /\ req[r1].response = HTTPException(400, "limit range")
        /\ req[r2].svc = "app" /\ req[r2].limit = 5000
        /\ req[r2].response.status = 200

\* C6: a failed comment lookup is never surfaced: the mapping is empty, the
\* row fetch is still executed and the request does not end in an error
C6_CommentFailureHidden ==
    \A r \in Requests :
        (req[r].svc = "app" /\ Failed(r, "comments")) =>
            /\ req[r].comment_map = EmptyMap
            /\ req[r].response.status # 500
            /\ req[r].pc = "done" => Issued(r, "rows") # {}

\* C7: two row-fetch requests to the same endpoint that differ only in the
\* identifier send the same SQL text
C7_TextIndependentOfIdentifier ==
    \A r1, r2 \in Requests :
        \A i \in Issued(r1, "rows"), j \in Issued(r2, "rows") :
            (req[r1].svc = req[r2].svc /\ req[r1].limit = req[r2].limit) =>
                req[r1].calls[i].text = req[r2].calls[j].text

InProgress == {r \in Requests : req[r].pc \notin {"idle", "done"}}

Holding == {r \in Requests : req[r].conn}

\* C8: no finished request holds a connection, so the connections held
\* never outnumber the requests in progress
C8_ConnectionsReleased ==
    /\ \A r \in Requests : req[r].pc = "done" => ~req[r].conn
    /\ Cardinality(Holding) <= Cardinality(InProgress)

C10_NoCellLost ==
    \A r \in Requests :
        (req[r].pc = "done" /\ req[r].response.status = 200) =>
            LET shown == IF req[r].svc = "app"
                         THEN req[r].response.columns
                         ELSE DisplayCols(ColMapOf(req[r].table),
                                          req[r].driver_columns)
            IN  /\ Len(shown) = Len(req[r].driver_columns)
                /\ Len(req[r].response.rows) = Len(req[r].driver_rows)
                /\ \A j \in 1..Len(req[r].driver_rows) :
                      /\ Cardinality(DOMAIN req[r].response.rows[j]) = Len(shown)
                      /\ \A i \in 1..Len(shown) :
                            req[r].response.rows[j][shown[i]]
                                = req[r].driver_rows[j][i]

====
